---- MODULE Spec2Model ----
(***************************************************************************)
(* Settings store of src-tauri/src/settings: the typed record             *)
(* (types.rs), the store operations over the key "settings" of the        *)
(* key-value backend (storage.rs) and their serialisation through         *)
(* serde_json.                                                            *)
(*                                                                         *)
(* Conventions.                                                           *)
(*   Option<T>      the set {} (None) or {x} (Some(x)).                    *)
(*   JSON scalar    a record [t, s, n, hi, e]: t is the JSON kind, s the   *)
(*                  text of a string, (hi, n) the two 32-bit words of an   *)
(*                  unsigned integer (n is the magnitude of a negative     *)
(*                  one), and n * 10^e a float.                            *)
(*   f32            [fin, n, e]: the finite value n * 10^e, or infinity.   *)
(*                  Only decimal values that survive f32 -> f64 -> f32     *)
(*                  are drawn, so in-range rounding is not in the model;   *)
(*                  out-of-range values becoming infinite is.              *)
(***************************************************************************)
EXTENDS Integers, Sequences, FiniteSets, TLC

\* ------------------------------------------------------------------ JSON

JNull == [t |-> "null", s |-> "", n |-> 0, hi |-> 0, e |-> 0]

JBool(b) == [t |-> "bool", s |-> "", n |-> IF b THEN 1 ELSE 0, hi |-> 0, e |-> 0]

JStr(x) == [t |-> "str", s |-> x, n |-> 0, hi |-> 0, e |-> 0]

\* The unsigned integer hi * 2^32 + lo.
JPosInt(hi, lo) == [t |-> "posint", s |-> "", n |-> lo, hi |-> hi, e |-> 0]

\* The negative integer -m.
JNegInt(m) == [t |-> "negint", s |-> "", n |-> m, hi |-> 0, e |-> 0]

\* The float m * 10^e.
JFloat(m, e) == [t |-> "float", s |-> "", n |-> m, hi |-> 0, e |-> e]

\* An array or object where a scalar is expected.
JArray == [t |-> "array", s |-> "", n |-> 0, hi |-> 0, e |-> 0]

\* ------------------------------------------------------------------ f32

\* Largest finite f32 is 3.4028235e38: with a one-digit mantissa m, the
\* value m * 10^e is finite iff e < 38, or e = 38 and m <= 3.
F32_MAX_EXP10 == 38

F32_MAX_LEAD == 3

F32Finite(m, e) == [fin |-> TRUE, n |-> m, e |-> e]

F32Inf == [fin |-> FALSE, n |-> 0, e |-> 0]

\* `v as f32` for the f64 m * 10^e (0 < m < 10).
F64AsF32(m, e) ==
    IF e < F32_MAX_EXP10 \/ (e = F32_MAX_EXP10 /\ m <= F32_MAX_LEAD)
    THEN F32Finite(m, e)
    ELSE F32Inf

\* ------------------------------------------------------- serde coercions
\* serde_json::from_value::<T>(value): Ok exactly when Is<T>(value).

IsU32(j) == j.t = "posint" /\ j.hi = 0

AsU32(j) == j.n

IsBool(j) == j.t = "bool"

AsBool(j) == j.n = 1

IsString(j) == j.t = "str"

AsString(j) == j.s

\* Every JSON number deserialises as f32; integers are cast.
IsF32(j) == j.t \in {"posint", "negint", "float"}

AsF32(j) ==
    CASE j.t = "float" -> F64AsF32(j.n, j.e)
      [] j.t = "posint" -> F32Finite(j.n, 0)
      [] OTHER -> F32Finite(0 - j.n, 0)

\* #[serde(rename_all = "lowercase")] enum ThemeMode { Light, Dark, System }
ThemeMode == {"Light", "Dark", "System"}

ThemeName(theme) ==
    CASE theme = "Light" -> "light"
      [] theme = "Dark" -> "dark"
      [] OTHER -> "system"

IsThemeMode(j) == j.t = "str" /\ \E th \in ThemeMode : ThemeName(th) = j.s

AsThemeMode(j) == CHOOSE th \in ThemeMode : ThemeName(th) = j.s

\* Option<String> and Option<u32>: null is None.
IsOptString(j) == j.t \in {"null", "str"}

AsOptString(j) == IF j.t = "null" THEN {} ELSE {j.s}

IsOptU32(j) == j.t = "null" \/ IsU32(j)

AsOptU32(j) == IF j.t = "null" THEN {} ELSE {j.n}

OptStringValue(o) == IF o = {} THEN JNull ELSE JStr(CHOOSE x \in o : TRUE)

OptU32Value(o) == IF o = {} THEN JNull ELSE JPosInt(0, CHOOSE x \in o : TRUE)

\* serde_json::to_value of an f32: a non-finite float becomes null.
F32Value(f) == IF f.fin THEN JFloat(f.n, f.e) ELSE JNull

\* ------------------------------------------------------------- defaults

ProviderIds == {"openai", "anthropic", "google", "ollama"}

DEFAULT_SIDEBAR_WIDTH == 320

DEFAULT_AUTO_SAVE_INTERVAL == 30

DEFAULT_MAX_TOKENS == 150

DEFAULT_RATE_LIMIT_RPM == 60

OLLAMA_RATE_LIMIT_RPM == 0

DefaultProvider(id) ==
    CASE id = "openai" ->
           [api_key |-> {}, custom_endpoint |-> {}, default_model |-> {"gpt-4o"},
            rate_limit_rpm |-> {DEFAULT_RATE_LIMIT_RPM}, enabled |-> TRUE]
      [] id = "anthropic" ->
           [api_key |-> {}, custom_endpoint |-> {},
            default_model |-> {"claude-sonnet-4-20250514"},
            rate_limit_rpm |-> {DEFAULT_RATE_LIMIT_RPM}, enabled |-> FALSE]
      [] id = "google" ->
           [api_key |-> {}, custom_endpoint |-> {},
            default_model |-> {"gemini-2.5-pro"},
            rate_limit_rpm |-> {DEFAULT_RATE_LIMIT_RPM}, enabled |-> FALSE]
      [] OTHER ->
           [api_key |-> {}, custom_endpoint |-> {"http://localhost:11434"},
            default_model |-> {"llama2"},
            rate_limit_rpm |-> {OLLAMA_RATE_LIMIT_RPM}, enabled |-> FALSE]

\* impl Default for AppSettings
AppSettingsDefault ==
    [providers |-> [id \in ProviderIds |-> DefaultProvider(id)],
     theme |-> "System",
     sidebar_width |-> DEFAULT_SIDEBAR_WIDTH,
     auto_save_interval |-> DEFAULT_AUTO_SAVE_INTERVAL,
     default_temperature |-> F32Finite(7, -1),
     default_max_tokens |-> DEFAULT_MAX_TOKENS,
     enable_analytics |-> FALSE,
     debug_mode |-> FALSE,
     compact_mode |-> FALSE]

\* ------------------------------------------------ Result<T, String>

Ok(v) == [ok |-> TRUE, v |-> v, err |-> ""]

Err(msg) == [ok |-> FALSE, v |-> <<>>, err |-> msg]

ERR_NOT_INITIALIZED == "Store not initialized"

ERR_DESERIALIZE == "Failed to deserialize settings"

ERR_SAVE == "Failed to save settings"

ERR_PARSE_EXPORT == "Failed to parse settings export"

\* ------------------------------------- serde of AppSettings (the store)

\* serde_json::to_value(&ProviderSettings)
ProviderToValue(p) ==
    [api_key |-> OptStringValue(p.api_key),
     custom_endpoint |-> OptStringValue(p.custom_endpoint),
     default_model |-> OptStringValue(p.default_model),
     rate_limit_rpm |-> OptU32Value(p.rate_limit_rpm),
     enabled |-> JBool(p.enabled)]

\* serde_json::to_value(settings) in save_settings
ToValue(settings) ==
    [providers |-> [id \in DOMAIN settings.providers |->
                       ProviderToValue(settings.providers[id])],
     theme |-> JStr(ThemeName(settings.theme)),
     sidebar_width |-> JPosInt(0, settings.sidebar_width),
     auto_save_interval |-> JPosInt(0, settings.auto_save_interval),
     default_temperature |-> F32Value(settings.default_temperature),
     default_max_tokens |-> JPosInt(0, settings.default_max_tokens),
     enable_analytics |-> JBool(settings.enable_analytics),
     debug_mode |-> JBool(settings.debug_mode),
     compact_mode |-> JBool(settings.compact_mode)]

ProviderValueOk(pv) ==
    /\ IsOptString(pv.api_key)
    /\ IsOptString(pv.custom_endpoint)
    /\ IsOptString(pv.default_model)
    /\ IsOptU32(pv.rate_limit_rpm)
    /\ IsBool(pv.enabled)

ProviderFromValue(pv) ==
    [api_key |-> AsOptString(pv.api_key),
     custom_endpoint |-> AsOptString(pv.custom_endpoint),
     default_model |-> AsOptString(pv.default_model),
     rate_limit_rpm |-> AsOptU32(pv.rate_limit_rpm),
     enabled |-> AsBool(pv.enabled)]

\* Whether serde_json::from_value::<AppSettings>(value) is Ok. A float field
\* holding null (a non-finite f32 went through to_value) is an error.
ValueOk(value) ==
    /\ \A id \in DOMAIN value.providers : ProviderValueOk(value.providers[id])
    /\ IsThemeMode(value.theme)
    /\ IsU32(value.sidebar_width)
    /\ IsU32(value.auto_save_interval)
    /\ IsF32(value.default_temperature)
    /\ IsU32(value.default_max_tokens)
    /\ IsBool(value.enable_analytics)
    /\ IsBool(value.debug_mode)
    /\ IsBool(value.compact_mode)

\* serde_json::from_value::<AppSettings>(value) when it is Ok.
FromValue(value) ==
    [providers |-> [id \in DOMAIN value.providers |->
                       ProviderFromValue(value.providers[id])],
     theme |-> AsThemeMode(value.theme),
     sidebar_width |-> AsU32(value.sidebar_width),
     auto_save_interval |-> AsU32(value.auto_save_interval),
     default_temperature |-> AsF32(value.default_temperature),
     default_max_tokens |-> AsU32(value.default_max_tokens),
     enable_analytics |-> AsBool(value.enable_analytics),
     debug_mode |-> AsBool(value.debug_mode),
     compact_mode |-> AsBool(value.compact_mode)]

\* --------------------------------------------------------- patch bodies

\* All orders in which a HashMap with key set S may be iterated.
Orders(S) ==
    {o \in [1..Cardinality(S) -> S] : \A i, j \in DOMAIN o : o[i] = o[j] => i = j}

\* One iteration of the loop of update_settings: the match on the key.
update_field(settings, key, value) ==
    CASE key = "theme" /\ IsThemeMode(value) ->
           [settings EXCEPT !.theme = AsThemeMode(value)]
      [] key = "sidebar_width" /\ IsU32(value) ->
           [settings EXCEPT !.sidebar_width = AsU32(value)]
      [] key = "auto_save_interval" /\ IsU32(value) ->
           [settings EXCEPT !.auto_save_interval = AsU32(value)]
      [] key = "default_temperature" /\ IsF32(value) ->
           [settings EXCEPT !.default_temperature = AsF32(value)]
      [] key = "default_max_tokens" /\ IsU32(value) ->
           [settings EXCEPT !.default_max_tokens = AsU32(value)]
      [] key = "enable_analytics" /\ IsBool(value) ->
           [settings EXCEPT !.enable_analytics = AsBool(value)]
      [] key = "debug_mode" /\ IsBool(value) ->
           [settings EXCEPT !.debug_mode = AsBool(value)]
      [] key = "compact_mode" /\ IsBool(value) ->
           [settings EXCEPT !.compact_mode = AsBool(value)]
      [] OTHER -> settings

\* A loop that stops at the first entry that is unknown or does not coerce.
RECURSIVE update_loop_aborting(_, _, _)
update_loop_aborting(settings, updates, order) ==
    IF order = <<>> THEN settings
    ELSE IF update_field(settings, Head(order), updates[Head(order)]) = settings
              /\ update_field(AppSettingsDefault, Head(order), updates[Head(order)])
                     = AppSettingsDefault
         THEN settings
         ELSE update_loop_aborting(
                  update_field(settings, Head(order), updates[Head(order)]),
                  updates, Tail(order))

\* The loop of update_settings over `updates`, iterated in `order`.
RECURSIVE update_loop(_, _, _)
update_loop(settings, updates, order) ==
    IF order = <<>> THEN settings
    ELSE update_loop(update_field(settings, Head(order), updates[Head(order)]),
                     updates, Tail(order))

\* A patch that stores the empty string as a present value.
NonEmpty_keeping_empty(str) == {str}

\* Some("") never results from a provider patch: the empty string is None.
NonEmpty(str) == IF str = "" THEN {} ELSE {str}

\* An iteration whose `enabled` arm toggles the flag instead of setting it.
update_provider_field_toggling(ps, key, value) ==
    CASE key = "enabled" /\ IsBool(value) ->
           [ps EXCEPT !.enabled = ~ps.enabled]
      [] key = "api_key" /\ IsString(value) ->
           [ps EXCEPT !.api_key = NonEmpty(AsString(value))]
      [] key = "custom_endpoint" /\ IsString(value) ->
           [ps EXCEPT !.custom_endpoint = NonEmpty(AsString(value))]
      [] key = "default_model" /\ IsString(value) ->
           [ps EXCEPT !.default_model = NonEmpty(AsString(value))]
      [] key = "rate_limit_rpm" /\ IsU32(value) ->
           [ps EXCEPT !.rate_limit_rpm = {AsU32(value)}]
      [] OTHER -> ps

\* One iteration of the loop of update_provider_settings.
update_provider_field(ps, key, value) ==
    CASE key = "enabled" /\ IsBool(value) ->
           [ps EXCEPT !.enabled = AsBool(value)]
      [] key = "api_key" /\ IsString(value) ->
           [ps EXCEPT !.api_key = NonEmpty(AsString(value))]
      [] key = "custom_endpoint" /\ IsString(value) ->
           [ps EXCEPT !.custom_endpoint = NonEmpty(AsString(value))]
      [] key = "default_model" /\ IsString(value) ->
           [ps EXCEPT !.default_model = NonEmpty(AsString(value))]
      [] key = "rate_limit_rpm" /\ IsU32(value) ->
           [ps EXCEPT !.rate_limit_rpm = {AsU32(value)}]
      [] OTHER -> ps

RECURSIVE update_provider_loop(_, _, _)
update_provider_loop(ps, updates, order) ==
    IF order = <<>> THEN ps
    ELSE update_provider_loop(
             update_provider_field(ps, Head(order), updates[Head(order)]),
             updates, Tail(order))

\* if let Some(provider_settings) = settings.providers.get_mut(provider) {..}
update_provider_body(settings, provider, updates, order) ==
    IF provider \in DOMAIN settings.providers
    THEN [settings EXCEPT !.providers[provider] =
              update_provider_loop(settings.providers[provider], updates, order)]
    ELSE settings

\* A set_api_key that makes an entry for a provider the record does not have.
set_api_key_body_inserting(settings, provider, api_key) ==
    [settings EXCEPT !.providers =
        [id \in DOMAIN settings.providers \cup {provider} |->
            IF id = provider
            THEN [(IF id \in DOMAIN settings.providers
                   THEN settings.providers[id] ELSE DefaultProvider("openai"))
                  EXCEPT !.api_key = api_key]
            ELSE settings.providers[id]]]

\* The body of set_api_key between get_settings and save_settings.
set_api_key_body(settings, provider, api_key) ==
    IF provider \in DOMAIN settings.providers
    THEN [settings EXCEPT !.providers[provider].api_key = api_key]
    ELSE settings

\* A lookup that takes an empty key for no key.
get_api_key_body_nonempty(settings, provider) ==
    IF provider \in DOMAIN settings.providers /\ settings.providers[provider].api_key # {""}
    THEN settings.providers[provider].api_key
    ELSE {}

\* The lookup of get_api_key.
get_api_key_body(settings, provider) ==
    IF provider \in DOMAIN settings.providers
    THEN settings.providers[provider].api_key
    ELSE {}

\* ------------------------------------------------------ export / import

EXPORT_VERSION == "1.0.0"

\* to_export copying the whole provider entry, api_key included.
to_export_with_keys(settings) ==
    [providers |-> settings.providers,
     theme |-> settings.theme,
     sidebar_width |-> settings.sidebar_width,
     auto_save_interval |-> settings.auto_save_interval,
     default_temperature |-> settings.default_temperature,
     default_max_tokens |-> settings.default_max_tokens,
     enable_analytics |-> settings.enable_analytics,
     debug_mode |-> settings.debug_mode,
     compact_mode |-> settings.compact_mode]

\* AppSettings::to_export: every field but api_key.
to_export(settings) ==
    [providers |-> [id \in DOMAIN settings.providers |->
        [custom_endpoint |-> settings.providers[id].custom_endpoint,
         default_model |-> settings.providers[id].default_model,
         rate_limit_rpm |-> settings.providers[id].rate_limit_rpm,
         enabled |-> settings.providers[id].enabled]],
     theme |-> settings.theme,
     sidebar_width |-> settings.sidebar_width,
     auto_save_interval |-> settings.auto_save_interval,
     default_temperature |-> settings.default_temperature,
     default_max_tokens |-> settings.default_max_tokens,
     enable_analytics |-> settings.enable_analytics,
     debug_mode |-> settings.debug_mode,
     compact_mode |-> settings.compact_mode]

\* An export that takes the defaults' endpoints instead of the record's.
SettingsExport_default_endpoints(settings, now) ==
    [version |-> EXPORT_VERSION, timestamp |-> now,
     settings |-> [to_export(settings) EXCEPT !.providers =
         [id \in DOMAIN @ |->
             [@[id] EXCEPT !.custom_endpoint =
                               DefaultProvider(id).custom_endpoint]]]]

\* The SettingsExport built by export_settings at time `now`.
SettingsExport(settings, now) ==
    [version |-> EXPORT_VERSION, timestamp |-> now, settings |-> to_export(settings)]

\* serde_json::to_string_pretty(&SettingsExport): the JSON document. A
\* document is [json |-> TRUE, doc |-> object]; an object is a function from
\* the keys that are present.
ExportToText(export) ==
    [json |-> TRUE,
     doc |->
       [version |-> JStr(export.version),
        timestamp |-> JStr(export.timestamp),
        settings |->
          [providers |-> [id \in DOMAIN export.settings.providers |->
              [custom_endpoint |->
                   OptStringValue(export.settings.providers[id].custom_endpoint),
               default_model |->
                   OptStringValue(export.settings.providers[id].default_model),
               rate_limit_rpm |->
                   OptU32Value(export.settings.providers[id].rate_limit_rpm),
               enabled |-> JBool(export.settings.providers[id].enabled)]],
           theme |-> JStr(ThemeName(export.settings.theme)),
           sidebar_width |-> JPosInt(0, export.settings.sidebar_width),
           auto_save_interval |-> JPosInt(0, export.settings.auto_save_interval),
           default_temperature |-> F32Value(export.settings.default_temperature),
           default_max_tokens |-> JPosInt(0, export.settings.default_max_tokens),
           enable_analytics |-> JBool(export.settings.enable_analytics),
           debug_mode |-> JBool(export.settings.debug_mode),
           compact_mode |-> JBool(export.settings.compact_mode)]]]

\* Text that is no JSON document.
NotJson == [json |-> FALSE, doc |-> <<>>]

Has(obj, key) == key \in DOMAIN obj

\* ProviderSettingsExport: a field of type Option<T> may be missing, and
\* unknown keys (an api_key) are ignored.
ExportProviderOk(obj) ==
    /\ Has(obj, "custom_endpoint") => IsOptString(obj.custom_endpoint)
    /\ Has(obj, "default_model") => IsOptString(obj.default_model)
    /\ Has(obj, "rate_limit_rpm") => IsOptU32(obj.rate_limit_rpm)
    /\ Has(obj, "enabled") /\ IsBool(obj.enabled)

ExportSettingsOk(obj) ==
    /\ Has(obj, "providers")
    /\ \A id \in DOMAIN obj.providers : ExportProviderOk(obj.providers[id])
    /\ Has(obj, "theme") /\ IsThemeMode(obj.theme)
    /\ Has(obj, "sidebar_width") /\ IsU32(obj.sidebar_width)
    /\ Has(obj, "auto_save_interval") /\ IsU32(obj.auto_save_interval)
    /\ Has(obj, "default_temperature") /\ IsF32(obj.default_temperature)
    /\ Has(obj, "default_max_tokens") /\ IsU32(obj.default_max_tokens)
    /\ Has(obj, "enable_analytics") /\ IsBool(obj.enable_analytics)
    /\ Has(obj, "debug_mode") /\ IsBool(obj.debug_mode)
    /\ Has(obj, "compact_mode") /\ IsBool(obj.compact_mode)

\* Whether serde_json::from_str::<SettingsExport>(text) is Ok.
ParseOk(text) ==
    /\ text.json
    /\ Has(text.doc, "version") /\ IsString(text.doc.version)
    /\ Has(text.doc, "timestamp") /\ IsString(text.doc.timestamp)
    /\ Has(text.doc, "settings")
    /\ ExportSettingsOk(text.doc.settings)

OptStringField(obj, key) == IF key \in DOMAIN obj THEN AsOptString(obj[key]) ELSE {}

OptU32Field(obj, key) == IF key \in DOMAIN obj THEN AsOptU32(obj[key]) ELSE {}

\* serde_json::from_str::<SettingsExport>(text) when it is Ok.
ParseExport(text) ==
    [version |-> AsString(text.doc.version),
     timestamp |-> AsString(text.doc.timestamp),
     settings |->
       [providers |-> [id \in DOMAIN text.doc.settings.providers |->
           [custom_endpoint |->
                OptStringField(text.doc.settings.providers[id], "custom_endpoint"),
            default_model |->
                OptStringField(text.doc.settings.providers[id], "default_model"),
            rate_limit_rpm |->
                OptU32Field(text.doc.settings.providers[id], "rate_limit_rpm"),
            enabled |-> AsBool(text.doc.settings.providers[id].enabled)]],
        theme |-> AsThemeMode(text.doc.settings.theme),
        sidebar_width |-> AsU32(text.doc.settings.sidebar_width),
        auto_save_interval |-> AsU32(text.doc.settings.auto_save_interval),
        default_temperature |-> AsF32(text.doc.settings.default_temperature),
        default_max_tokens |-> AsU32(text.doc.settings.default_max_tokens),
        enable_analytics |-> AsBool(text.doc.settings.enable_analytics),
        debug_mode |-> AsBool(text.doc.settings.debug_mode),
        compact_mode |-> AsBool(text.doc.settings.compact_mode)]]

\* The provider loop of import_settings for one key of the payload: the
\* keys of a HashMap are distinct and an iteration touches only the entry of
\* its own key, so the loop is this step at every key, in any order.
\* The entry rebuilt from the payload, which has no api_key to give it.
import_provider_rebuilt(provider, export_provider) ==
    [api_key |-> {},
     custom_endpoint |-> export_provider.custom_endpoint,
     default_model |-> export_provider.default_model,
     rate_limit_rpm |-> export_provider.rate_limit_rpm,
     enabled |-> export_provider.enabled]

import_provider(provider, export_provider) ==
    [provider EXCEPT !.custom_endpoint = export_provider.custom_endpoint,
                     !.default_model = export_provider.default_model,
                     !.rate_limit_rpm = export_provider.rate_limit_rpm,
                     !.enabled = export_provider.enabled]

\* The keys after a loop that inserts the entries it does not find.
import_keys_inserting(providers, export_providers) ==
    DOMAIN providers \cup DOMAIN export_providers

\* The keys of the record's provider map after the loop: get_mut inserts
\* nothing.
import_keys(providers, export_providers) == DOMAIN providers

import_provider_loop(providers, export_providers) ==
    [id \in import_keys(providers, export_providers) |->
        IF id \in DOMAIN providers
        THEN IF id \in DOMAIN export_providers
             THEN import_provider(providers[id], export_providers[id])
             ELSE providers[id]
        ELSE import_provider(DefaultProvider(id), export_providers[id])]

\* The body of import_settings between get_settings and save_settings.
import_body(settings, export) ==
    [providers |-> import_provider_loop(settings.providers,
                                        export.settings.providers),
     theme |-> export.settings.theme,
     sidebar_width |-> export.settings.sidebar_width,
     auto_save_interval |-> export.settings.auto_save_interval,
     default_temperature |-> export.settings.default_temperature,
     default_max_tokens |-> export.settings.default_max_tokens,
     enable_analytics |-> export.settings.enable_analytics,
     debug_mode |-> export.settings.debug_mode,
     compact_mode |-> export.settings.compact_mode]

\* --------------------------------------------------------------- inputs

\* How many of the patches, provider patches and import texts below are
\* drawn, and how many flushes of the backend may fail in one behaviour.
NumPatches == 5

NumProviderPatches == 3

NumImportTexts == 5

MaxFlushFailures == 1

\* The `updates` of update_settings: the example of the specification; two
\* fields at once; a well-typed field beside an ill-typed and an unknown one;
\* a float beyond the range of f32; three values that do not coerce (a
\* negative integer, an integer beyond u32, a number for a bool).
Patch(i) ==
    CASE i = 1 -> [sidebar_width |-> JPosInt(0, 480)]
      [] i = 2 -> [theme |-> JStr("dark"), debug_mode |-> JBool(TRUE)]
      [] i = 3 -> [sidebar_width |-> JPosInt(0, 480),
                   theme |-> JPosInt(0, 5),
                   font_size |-> JPosInt(0, 12)]
      [] i = 4 -> [default_temperature |-> JFloat(1, 40)]
      [] i = 5 -> [auto_save_interval |-> JNegInt(5),
                   default_max_tokens |-> JPosInt(1, 0),
                   enable_analytics |-> JPosInt(0, 1)]
      [] OTHER -> [default_temperature |-> JPosInt(0, 1)]

\* The `updates` of update_provider_settings.
ProviderPatch(i) ==
    CASE i = 1 -> [api_key |-> JStr("sk-abc"), enabled |-> JBool(FALSE)]
      [] i = 2 -> [api_key |-> JStr(""),
                   custom_endpoint |-> JStr(""),
                   default_model |-> JStr("")]
      [] i = 3 -> [enabled |-> JStr("yes"),
                   api_key |-> JStr("sk-abc"),
                   organization |-> JStr("acme")]
      [] OTHER -> [rate_limit_rpm |-> JPosInt(0, 0),
                   api_key |-> JArray]

\* The `provider` argument of update_provider_settings: a key of the record
\* and one that is not.
PatchedProviders == {"openai", "mistral"}

\* The `provider` argument of get_api_key and set_api_key.
ProviderArgs == {"openai", "ollama", "mistral"}

\* The `api_key` argument of set_api_key, by number.
NumApiKeyArgs == 3

ApiKeyArg(k) ==
    CASE k = 1 -> {}
      [] k = 2 -> {"sk-abc"}
      [] OTHER -> {""}

\* chrono::Utc::now().to_rfc3339()
Timestamps == {"2025-01-01T00:00:00+00:00", "2025-06-01T12:00:00+00:00"}

\* A hand-written export: every top-level field, an entry that carries an
\* api_key, an entry that misses its optional fields, and an entry for a
\* provider the record does not have.
ForeignDoc ==
    [version |-> JStr("0.9.0"),
     timestamp |-> JStr("2024-12-24T00:00:00+00:00"),
     settings |->
       [providers |->
          [openai |-> [api_key |-> JStr("sk-evil"),
                       custom_endpoint |-> JNull,
                       default_model |-> JNull,
                       rate_limit_rpm |-> JPosInt(0, 60),
                       enabled |-> JBool(FALSE)],
           ollama |-> [enabled |-> JBool(TRUE)],
           mistral |-> [api_key |-> JStr("sk-evil"), enabled |-> JBool(TRUE)]],
        theme |-> JStr("dark"),
        sidebar_width |-> JPosInt(0, 480),
        auto_save_interval |-> JPosInt(0, 30),
        default_temperature |-> JFloat(7, -1),
        default_max_tokens |-> JPosInt(0, 150),
        enable_analytics |-> JBool(FALSE),
        debug_mode |-> JBool(TRUE),
        compact_mode |-> JBool(FALSE)]]

\* The `export_data` of import_settings: the serialised export of `settings`
\* taken at `now`; the hand-written export; text that is not JSON; an export
\* with no provider entry; JSON whose settings miss `providers`.
ImportText(i, settings, now) ==
    CASE i = 1 -> ExportToText(SettingsExport(settings, now))
      [] i = 2 -> [json |-> TRUE, doc |-> ForeignDoc]
      [] i = 3 -> NotJson
      [] i = 4 -> [json |-> TRUE,
                   doc |-> [ForeignDoc EXCEPT !.settings.providers = <<>>]]
      [] OTHER -> [json |-> TRUE,
                   doc |-> [ForeignDoc EXCEPT !.settings =
                       [theme |-> JStr("light"),
                        sidebar_width |-> JPosInt(0, 480)]]]

\* --------------------------------------------------------------- events

\* app.emit(name, payload)
Event(name, payload) == [name |-> name, payload |-> payload]

\* A command that emits the event whatever the store operation returned.
emit_settings_updated_always(result) ==
    <<Event("settings-updated", result.v)>>

\* A command that emits the event once more after its notification.
emit_settings_updated_twice(result) ==
    IF result.ok
    THEN <<Event("settings-updated", result.v), Event("settings-updated", result.v)>>
    ELSE <<>>

\* `match &result { Ok(settings) => { app.emit("settings-updated", settings) }`
\* of the commands that change the record; the Err arm emits nothing.
emit_settings_updated(result) ==
    IF result.ok THEN <<Event("settings-updated", result.v)>> ELSE <<>>

\* No test_provider_connection was invoked yet.
IdleTest == [pc |-> "idle", provider |-> "", config |-> 0, result |-> Ok(FALSE)]

\* ---------------------------------------------------------------- state

VARIABLES
    store,          \* SettingsStorage.store: "None" or "Some"
    cache,          \* the backend's in-memory value of key "settings" (Option)
    disk,           \* the value of key "settings" in the backend's file (Option)
    flushFailures,  \* how many store.save() calls have failed
    backend,        \* the backend's file: "reliable", "failing" or "readonly"
    guard,          \* the command holding the Mutex of SettingsStorage.store (Option)
    last,           \* the store operation that ran last, and its arguments
    ret,            \* what it returned
    emitted,        \* the events the last command passed to app.emit, in order
    tasks,          \* the commands in flight on the async runtime
    test            \* the test_provider_connection in flight

vars ==
    <<store, cache, disk, flushFailures, backend, guard, last, ret, emitted, tasks, test>>

\* `again`: the operation before it was the same one with the same arguments.
Call(op, provider, arg) ==
    [op |-> op, provider |-> provider, arg |-> arg,
     again |-> (last.op = op /\ last.provider = provider /\ last.arg = arg)]

\* How many commands the runtime runs at once.
NumTasks == 2

Tasks == 1..NumTasks

\* A command nobody invoked yet. `settings` is the command's own copy of the
\* record, `todo` the entries its body has still to assign, `mid` whether the
\* record it read was read while another command was between two assignments.
IdleTask ==
    [pc |-> "idle", cmd |-> 0, settings |-> AppSettingsDefault, todo |-> {},
     res |-> Ok(<<>>), mid |-> FALSE]

\* SettingsStorage::new(), and a backend file holding no "settings" key.
Fresh ==
    /\ tasks = [p \in Tasks |-> IdleTask]
    /\ test = IdleTest
    /\ emitted = <<>>
    /\ guard = {}
    /\ store = "None"
    /\ cache = {}
    /\ disk = {}
    /\ flushFailures = 0
    /\ last = [op |-> "new", provider |-> "", arg |-> 0, again |-> FALSE]
    /\ ret = Ok(<<>>)

\* The file of the backend can always be written.
Init == Fresh /\ backend = "reliable"

\* Writing the file of the backend may fail.
InitFailing == Fresh /\ backend = "failing"

\* Writing the file of the backend fails every time.
InitReadOnly == Fresh /\ backend = "readonly"

\* A get_settings that answers with the default record while nothing is bound.
get_settings_of_unbound_default(st, c) ==
    IF st = "None" \/ c = {} THEN Ok(AppSettingsDefault)
    ELSE LET value == CHOOSE v \in c : TRUE
         IN IF ValueOk(value) THEN Ok(FromValue(value)) ELSE Err(ERR_DESERIALIZE)

\* get_settings on a store bound or not (`st`) whose key holds `c`.
get_settings_of(st, c) ==
    IF st = "None" THEN Err(ERR_NOT_INITIALIZED)
    ELSE IF c = {} THEN Ok(AppSettingsDefault)
    ELSE LET value == CHOOSE v \in c : TRUE
         IN IF ValueOk(value) THEN Ok(FromValue(value)) ELSE Err(ERR_DESERIALIZE)

\* store.get("settings") and the match on it, under the guard.
get_settings == get_settings_of(store, cache)

\* Whether this call of store.save() may have the outcome `flushOk`.
FlushMay(flushOk) ==
    IF backend = "readonly"
    THEN ~flushOk /\ flushFailures < MaxFlushFailures
    ELSE flushOk \/ (backend = "failing" /\ flushFailures < MaxFlushFailures)

\* save_settings(settings): store.set under the guard, then store.save(),
\* which writes the file or fails and leaves it.
save_settings(settings, flushOk) ==
    IF store = "None"
    THEN /\ UNCHANGED <<cache, disk, flushFailures>>
         /\ ret' = Err(ERR_NOT_INITIALIZED)
    ELSE /\ cache' = {ToValue(settings)}
         /\ IF flushOk
            THEN /\ disk' = cache'
                 /\ UNCHANGED flushFailures
                 /\ ret' = Ok(settings)
            ELSE /\ UNCHANGED disk
                 /\ flushFailures' = flushFailures + 1
                 /\ ret' = Err(ERR_SAVE)

\* `let mut settings = self.get_settings()?;` then the body and
\* `self.save_settings(&settings)?; Ok(settings)`.
Mutate(got, settings, flushOk) ==
    IF got.ok
    THEN save_settings(settings, flushOk)
    ELSE /\ ret' = Err(got.err)
         /\ UNCHANGED <<cache, disk, flushFailures>>

\* init(app): store_builder("settings.json").build()
InitStore ==
    \E built \in BOOLEAN :
        /\ store' = IF built THEN "Some" ELSE store
        /\ ret' = IF built THEN Ok(<<>>) ELSE Err("Failed to initialize settings store")
        /\ last' = Call("init", "", 0)
        /\ UNCHANGED <<cache, disk, flushFailures, backend, guard, tasks, test>>
        /\ emitted' = <<>>

\* A get_settings that writes the default record when the key holds nothing.
GetSettings_persisting_default ==
    /\ ret' = get_settings
    /\ last' = Call("get_settings", "", 0)
    /\ cache' = IF store = "Some" /\ cache = {}
                THEN {ToValue(AppSettingsDefault)} ELSE cache
    /\ disk' = IF store = "Some" /\ cache = {} THEN cache' ELSE disk
    /\ UNCHANGED <<store, flushFailures, backend, guard, tasks, test>>
    /\ emitted' = <<>>

\* get_settings(): store.get("settings") and nothing else.
GetSettings ==
    /\ ret' = get_settings
    /\ last' = Call("get_settings", "", 0)
    /\ UNCHANGED <<store, cache, disk, flushFailures, backend, guard, tasks, test>>
    /\ emitted' = <<>>

UpdateSettings ==
    \E i \in 1..NumPatches, flushOk \in BOOLEAN :
      LET got == get_settings IN
        /\ FlushMay(flushOk)
        /\ last' = Call("update_settings", "", i)
        /\ UNCHANGED <<store, backend, guard, tasks, test>>
        /\ \E order \in IF got.ok THEN Orders(DOMAIN Patch(i)) ELSE {<<>>} :
              Mutate(got, update_loop(got.v, Patch(i), order), flushOk)
        /\ emitted' = emit_settings_updated(ret')

UpdateProviderSettings ==
    \E provider \in PatchedProviders, i \in 1..NumProviderPatches, flushOk \in BOOLEAN :
      LET got == get_settings IN
        /\ FlushMay(flushOk)
        /\ last' = Call("update_provider_settings", provider, i)
        /\ UNCHANGED <<store, backend, guard, tasks, test>>
        /\ \E order \in IF got.ok THEN Orders(DOMAIN ProviderPatch(i)) ELSE {<<>>} :
              Mutate(got, update_provider_body(got.v, provider, ProviderPatch(i), order),
                     flushOk)
        /\ emitted' = emit_settings_updated(ret')

\* A reset that keeps the credentials of the current record.
reset_body_keeping_keys ==
    IF cache = {} THEN AppSettingsDefault
    ELSE [AppSettingsDefault EXCEPT !.providers =
             [id \in ProviderIds |->
                 [@[id] EXCEPT !.api_key =
                     AsOptString((CHOOSE v \in cache : TRUE).providers[id].api_key)]]]

\* `let settings = AppSettings::default();` in reset_settings
reset_body == AppSettingsDefault

ResetSettings ==
    \E flushOk \in BOOLEAN :
        /\ FlushMay(flushOk)
        /\ last' = Call("reset_settings", "", 0)
        /\ UNCHANGED <<store, backend, guard, tasks, test>>
        /\ save_settings(reset_body, flushOk)
        /\ emitted' = emit_settings_updated(ret')

ExportSettings ==
    \E now \in Timestamps :
      LET got == get_settings IN
        /\ last' = Call("export_settings", "", 0)
        /\ ret' = IF got.ok THEN Ok(SettingsExport(got.v, now)) ELSE Err(got.err)
        /\ UNCHANGED <<store, cache, disk, flushFailures, backend, guard, tasks, test>>
        /\ emitted' = <<>>

\* The texts import_settings is given in this state, as <<number, time of
\* the export>>: an export of the current record exists only when
\* get_settings succeeds.
ImportArgs ==
    {<<1, now>> : now \in IF get_settings.ok THEN Timestamps ELSE {}}
        \cup {<<i, "">> : i \in 2..NumImportTexts}

ImportSettings ==
    \E arg \in ImportArgs, flushOk \in BOOLEAN :
      LET got == get_settings
          text == ImportText(arg[1], got.v, arg[2])
      IN
        /\ FlushMay(flushOk)
        /\ last' = Call("import_settings", "", arg[1])
        /\ UNCHANGED <<store, backend, guard, tasks, test>>
        /\ IF ParseOk(text)
           THEN Mutate(got, import_body(got.v, ParseExport(text)), flushOk)
           ELSE /\ ret' = Err(ERR_PARSE_EXPORT)
                /\ UNCHANGED <<cache, disk, flushFailures>>
        /\ emitted' = emit_settings_updated(ret')

GetApiKey ==
    \E provider \in ProviderArgs :
      LET got == get_settings IN
        /\ last' = Call("get_api_key", provider, 0)
        /\ ret' = IF got.ok THEN Ok(get_api_key_body(got.v, provider)) ELSE Err(got.err)
        /\ UNCHANGED <<store, cache, disk, flushFailures, backend, guard, tasks, test>>
        /\ emitted' = <<>>

SetApiKey ==
    \E provider \in ProviderArgs, k \in 1..NumApiKeyArgs, flushOk \in BOOLEAN :
      LET got == get_settings IN
        /\ FlushMay(flushOk)
        /\ last' = Call("set_api_key", provider, k)
        /\ UNCHANGED <<store, backend, guard, tasks, test>>
        /\ Mutate(got, set_api_key_body(got.v, provider, ApiKeyArg(k)), flushOk)
        /\ emitted' = emit_settings_updated(ret')

Next ==
    \/ InitStore
    \/ GetSettings
    \/ UpdateSettings
    \/ UpdateProviderSettings
    \/ ResetSettings
    \/ ExportSettings
    \/ ImportSettings
    \/ GetApiKey
    \/ SetApiKey

Spec == Init /\ [][Next]_vars

SpecFailing == InitFailing /\ [][Next]_vars

SpecReadOnly == InitReadOnly /\ [][Next]_vars

\* -------------------------------------------------- concurrent commands
\* The commands are async functions of the runtime and share one
\* SettingsStorage. The guard of SettingsStorage.store is taken inside
\* get_settings and inside save_settings and dropped when each returns, so
\* a command is a sequence of steps: get_settings under the guard, the
\* assignments to its own copy of the record, save_settings under the guard.

\* How many of the commands below are invoked.
NumCommands == 6

Command(k) ==
    CASE k = 1 -> [op |-> "update_settings", provider |-> "", arg |-> 1]
      [] k = 2 -> [op |-> "set_api_key", provider |-> "openai", arg |-> 2]
      [] k = 3 -> [op |-> "get_settings", provider |-> "", arg |-> 0]
      [] k = 4 -> [op |-> "update_settings", provider |-> "", arg |-> 2]
      [] k = 5 -> [op |-> "import_settings", provider |-> "", arg |-> 2]
      [] k = 6 -> [op |-> "reset_settings", provider |-> "", arg |-> 0]
      [] OTHER -> [op |-> "update_provider_settings", provider |-> "openai", arg |-> 1]

\* The text a concurrent import_settings is given.
CommandText(c) == ImportText(c.arg, AppSettingsDefault, "")

\* The assignments the body of the command makes, by the entry each is for;
\* import_settings assigns the top-level fields, then loops over the entries
\* of the payload's provider map.
Entries(c) ==
    CASE c.op = "update_settings" -> DOMAIN Patch(c.arg)
      [] c.op = "update_provider_settings" -> DOMAIN ProviderPatch(c.arg)
      [] c.op = "set_api_key" -> {"api_key"}
      [] c.op = "import_settings" ->
           {"settings"} \cup DOMAIN ParseExport(CommandText(c)).settings.providers
      [] OTHER -> {}

\* Whether `key` can be the next assignment when `todo` are still to make.
IsNext(c, todo, key) ==
    /\ key \in todo
    /\ (c.op = "import_settings" /\ "settings" \in todo) => key = "settings"

\* One assignment of the body to the command's copy of the record.
assign(c, settings, key) ==
    CASE c.op = "update_settings" ->
           update_field(settings, key, Patch(c.arg)[key])
      [] c.op = "update_provider_settings" ->
           update_provider_body(settings, c.provider, ProviderPatch(c.arg), <<key>>)
      [] c.op = "set_api_key" ->
           set_api_key_body(settings, c.provider, ApiKeyArg(c.arg))
      [] c.op = "import_settings" /\ key = "settings" ->
           import_body(settings,
               [ParseExport(CommandText(c)) EXCEPT !.settings.providers = <<>>])
      [] c.op = "import_settings" /\ key # "settings" ->
           [settings EXCEPT !.providers =
               import_provider_loop(@,
                   [id \in {key} |->
                       ParseExport(CommandText(c)).settings.providers[id]])]
      [] OTHER -> settings

\* Another command than `p` has made some of its assignments and not all.
MidBody(p) ==
    \E q \in Tasks \ {p} :
        /\ tasks[q].pc = "body"
        /\ tasks[q].todo # {}
        /\ tasks[q].todo # Entries(Command(tasks[q].cmd))

\* The frontend invokes a command. import_settings parses its text before
\* anything else; reset_settings builds the default record and reads nothing.
Invoke(p) ==
    \E k \in 1..NumCommands :
        /\ tasks[p].pc = "idle"
        /\ tasks' = [tasks EXCEPT ![p] =
              IF Command(k).op = "import_settings" /\ ~ParseOk(CommandText(Command(k)))
              THEN [@ EXCEPT !.pc = "done", !.cmd = k, !.res = Err(ERR_PARSE_EXPORT)]
              ELSE IF Command(k).op = "reset_settings"
              THEN [@ EXCEPT !.pc = "body", !.cmd = k, !.settings = reset_body]
              ELSE [@ EXCEPT !.pc = "invoked", !.cmd = k]]
        /\ UNCHANGED <<store, cache, disk, flushFailures, backend, guard, last, ret, emitted, test>>

\* `self.get_settings()?` of the command: the whole of get_settings runs under
\* the guard. The command get_settings returns what it read.
Read(p) ==
    LET got == get_settings
        c == Command(tasks[p].cmd)
    IN
        /\ tasks[p].pc = "invoked"
        /\ tasks' = [tasks EXCEPT ![p] =
              IF ~got.ok
              THEN [@ EXCEPT !.pc = "done", !.res = Err(got.err)]
              ELSE IF c.op = "get_settings"
              THEN [@ EXCEPT !.pc = "done", !.res = got, !.mid = MidBody(p)]
              ELSE [@ EXCEPT !.pc = "body", !.settings = got.v, !.todo = Entries(c),
                             !.mid = MidBody(p)]]
        /\ UNCHANGED <<store, cache, disk, flushFailures, backend, guard, last, ret, emitted, test>>

\* One assignment of the body; no guard is held.
Assign(p) ==
    \E key \in tasks[p].todo :
        /\ tasks[p].pc = "body"
        /\ IsNext(Command(tasks[p].cmd), tasks[p].todo, key)
        /\ tasks' = [tasks EXCEPT ![p] =
              [@ EXCEPT !.settings = assign(Command(tasks[p].cmd), @, key),
                        !.todo = @ \ {key}]]
        /\ UNCHANGED <<store, cache, disk, flushFailures, backend, guard, last, ret, emitted, test>>

\* A save that does not wait for the end of the body.
BodyDone_never_waiting(task) == task.pc = "body"

\* The body has made all its assignments: save_settings is the next statement.
BodyDone(task) == task.pc = "body" /\ task.todo = {}

\* `self.save_settings(&settings)?; Ok(settings)`: store.set and store.save()
\* under the guard.
Save(p) ==
    \E flushOk \in BOOLEAN :
        /\ BodyDone(tasks[p])
        /\ FlushMay(flushOk)
        /\ store = "Some"
        /\ cache' = {ToValue(tasks[p].settings)}
        /\ disk' = IF flushOk THEN cache' ELSE disk
        /\ flushFailures' = IF flushOk THEN flushFailures ELSE flushFailures + 1
        /\ tasks' = [tasks EXCEPT ![p] =
              [@ EXCEPT !.pc = "done",
                        !.res = IF flushOk THEN Ok(tasks[p].settings) ELSE Err(ERR_SAVE)]]
        /\ UNCHANGED <<store, backend, guard, last, ret, emitted, test>>

\* A store init_settings has bound, and no command invoked yet.
InitConcurrent ==
    /\ tasks = [p \in Tasks |-> IdleTask]
    /\ test = IdleTest
    /\ emitted = <<>>
    /\ guard = {}
    /\ store = "Some"
    /\ cache = {}
    /\ disk = {}
    /\ flushFailures = 0
    /\ backend = "reliable"
    /\ last = [op |-> "init", provider |-> "", arg |-> 0, again |-> FALSE]
    /\ ret = Ok(<<>>)

NextConcurrent ==
    \E p \in Tasks :
        \/ Invoke(p)
        \/ Read(p)
        \/ Assign(p)
        \/ Save(p)

SpecConcurrent == InitConcurrent /\ [][NextConcurrent]_vars

\* ------------------------------------------------- connection validator
\* The strings test_provider_internal inspects are sequences of Unicode
\* code points: str::len counts the bytes of their UTF-8 encoding,
\* starts_with and contains compare them code point by code point.

Utf8Width(c) == IF c < 128 THEN 1 ELSE IF c < 2048 THEN 2 ELSE IF c < 65536 THEN 3 ELSE 4

\* str::len
RECURSIVE len(_)
len(s) == IF s = <<>> THEN 0 ELSE Utf8Width(Head(s)) + len(Tail(s))

\* str::is_empty
is_empty(s) == s = <<>>

\* str::starts_with
starts_with(s, prefix) ==
    Len(prefix) <= Len(s) /\ SubSeq(s, 1, Len(prefix)) = prefix

\* str::contains
contains(s, pattern) ==
    \E i \in 0..(Len(s) - Len(pattern)) : SubSeq(s, i + 1, i + Len(pattern)) = pattern

\* "sk-"
STR_SK ==
    <<115, 107, 45>>

\* "sk-ant-"
STR_SK_ANT ==
    <<115, 107, 45, 97, 110, 116, 45>>

\* "localhost"
STR_LOCALHOST ==
    <<108, 111, 99, 97, 108, 104, 111, 115, 116>>

\* "127.0.0.1"
STR_LOOPBACK ==
    <<49, 50, 55, 46, 48, 46, 48, 46, 49>>

\* "sk-abc"
KEY_OPENAI ==
    <<115, 107, 45, 97, 98, 99>>

\* "sk-ant-api03"
KEY_ANTHROPIC ==
    <<115, 107, 45, 97, 110, 116, 45, 97, 112, 105, 48, 51>>

\* "abcdefghij"
KEY_TEN ==
    <<97, 98, 99, 100, 101, 102, 103, 104, 105, 106>>

\* six Cyrillic letters, twelve bytes: U+043A U+043B U+044E U+0447 U+0438 U+043A
KEY_CYRILLIC ==
    <<1082, 1083, 1102, 1095, 1080, 1082>>

\* "abcdefghijk"
KEY_ELEVEN ==
    <<97, 98, 99, 100, 101, 102, 103, 104, 105, 106, 107>>

\* "http://localhost:11434"
URL_LOCALHOST ==
    <<104, 116, 116, 112, 58, 47, 47, 108, 111, 99, 97, 108, 104, 111,
      115, 116, 58, 49, 49, 52, 51, 52>>

\* "http://127.0.0.1:11434"
URL_LOOPBACK ==
    <<104, 116, 116, 112, 58, 47, 47, 49, 50, 55, 46, 48, 46, 48, 46, 49,
      58, 49, 49, 52, 51, 52>>

\* "https://api.example.com"
URL_REMOTE ==
    <<104, 116, 116, 112, 115, 58, 47, 47, 97, 112, 105, 46, 101, 120, 97,
      109, 112, 108, 101, 46, 99, 111, 109>>

\* The minimum a Google key must exceed: `api_key.len() > 10`.
GOOGLE_KEY_MIN_LEN == 10

\* A validator whose Anthropic arm tests the prefix of the OpenAI arm.
test_provider_internal_loose_prefix(provider, config) ==
    CASE provider \in {"openai", "anthropic"} ->
           IF config.api_key # {} /\ ~is_empty(CHOOSE k \in config.api_key : TRUE)
           THEN Ok(starts_with(CHOOSE k \in config.api_key : TRUE, STR_SK))
           ELSE Err(IF provider = "openai" THEN "API key is required for OpenAI"
                    ELSE "API key is required for Anthropic")
      [] provider = "google" ->
           IF config.api_key # {} /\ ~is_empty(CHOOSE k \in config.api_key : TRUE)
           THEN Ok(len(CHOOSE k \in config.api_key : TRUE) > GOOGLE_KEY_MIN_LEN)
           ELSE Err("API key is required for Google")
      [] provider = "ollama" ->
           IF config.custom_endpoint # {}
           THEN Ok(contains(CHOOSE u \in config.custom_endpoint : TRUE, STR_LOCALHOST)
                   \/ contains(CHOOSE u \in config.custom_endpoint : TRUE, STR_LOOPBACK))
           ELSE Err("Custom endpoint is required for Ollama")
      [] OTHER -> Err("Unknown provider: " \o provider)

\* test_provider_internal(provider, config)
test_provider_internal(provider, config) ==
    CASE provider = "openai" ->
           IF config.api_key # {}
           THEN IF ~is_empty(CHOOSE k \in config.api_key : TRUE)
                THEN Ok(starts_with(CHOOSE k \in config.api_key : TRUE, STR_SK))
                ELSE Err("API key is required for OpenAI")
           ELSE Err("API key is required for OpenAI")
      [] provider = "anthropic" ->
           IF config.api_key # {}
           THEN IF ~is_empty(CHOOSE k \in config.api_key : TRUE)
                THEN Ok(starts_with(CHOOSE k \in config.api_key : TRUE, STR_SK_ANT))
                ELSE Err("API key is required for Anthropic")
           ELSE Err("API key is required for Anthropic")
      [] provider = "google" ->
           IF config.api_key # {}
           THEN IF ~is_empty(CHOOSE k \in config.api_key : TRUE)
                THEN Ok(len(CHOOSE k \in config.api_key : TRUE) > GOOGLE_KEY_MIN_LEN)
                ELSE Err("API key is required for Google")
           ELSE Err("API key is required for Google")
      [] provider = "ollama" ->
           IF config.custom_endpoint # {}
           THEN Ok(contains(CHOOSE u \in config.custom_endpoint : TRUE, STR_LOCALHOST)
                   \/ contains(CHOOSE u \in config.custom_endpoint : TRUE, STR_LOOPBACK))
           ELSE Err("Custom endpoint is required for Ollama")
      [] OTHER -> Err("Unknown provider: " \o provider)

\* How many of the candidate configs below are tested.
NumTestConfigs == 6

\* The `config` of test_provider_connection: nothing set; empty strings; the
\* key of the specification's example and a local endpoint; an Anthropic key
\* and a loopback endpoint; ten letters and a remote endpoint; a key of six
\* letters that takes twelve bytes; eleven letters.
TestConfig(i) ==
    [api_key |->
        CASE i = 1 -> {}
          [] i = 2 -> {<<>>}
          [] i = 3 -> {KEY_OPENAI}
          [] i = 4 -> {KEY_ANTHROPIC}
          [] i = 5 -> {KEY_TEN}
          [] i = 6 -> {KEY_CYRILLIC}
          [] OTHER -> {KEY_ELEVEN},
     custom_endpoint |->
        CASE i = 1 -> {}
          [] i = 2 -> {<<>>}
          [] i = 3 -> {URL_LOCALHOST}
          [] i = 4 -> {URL_LOOPBACK}
          [] i = 5 -> {URL_REMOTE}
          [] i = 6 -> {}
          [] OTHER -> {STR_LOCALHOST},
     default_model |-> {},
     rate_limit_rpm |-> {},
     enabled |-> TRUE]

\* The `provider` of test_provider_connection: the four keys of the record,
\* an identifier that is none of them, and a key in another case.
TestProviders == {"openai", "anthropic", "google", "ollama", "mistral", "OpenAI"}

\* A match whose Ok(false) arm emits the event of the Err arm.
emit_test_result_failed_on_false(provider, result) ==
    IF result.ok /\ result.v
    THEN <<Event("provider-test-completed", <<provider, TRUE>>)>>
    ELSE <<Event("provider-test-failed", <<provider, result.err>>)>>

\* `match &result { .. }` of test_provider_connection
emit_test_result(provider, result) ==
    IF result.ok
    THEN IF result.v
         THEN <<Event("provider-test-completed", <<provider, TRUE>>)>>
         ELSE <<Event("provider-test-completed", <<provider, FALSE>>)>>
    ELSE <<Event("provider-test-failed", <<provider, result.err>>)>>

\* test_provider_connection is invoked and emits "provider-test-started".
TestStart ==
    \E provider \in TestProviders, i \in 1..NumTestConfigs :
        /\ test.pc \in {"idle", "done"}
        /\ test' = [pc |-> "started", provider |-> provider, config |-> i,
                    result |-> Ok(FALSE)]
        /\ emitted' = <<Event("provider-test-started", provider)>>
        /\ UNCHANGED <<store, cache, disk, flushFailures, backend, guard, last, ret, tasks>>

\* `test_provider_internal(&provider, &config).await` returns.
TestValidate ==
    /\ test.pc = "started"
    /\ test' = [test EXCEPT !.pc = "validated",
                            !.result = test_provider_internal(test.provider,
                                                              TestConfig(test.config))]
    /\ UNCHANGED <<store, cache, disk, flushFailures, backend, guard, last, ret, emitted, tasks>>

\* The match on the result emits the terminal event, and the command returns
\* the result.
TestFinish ==
    /\ test.pc = "validated"
    /\ test' = [test EXCEPT !.pc = "done"]
    /\ emitted' = emitted \o emit_test_result(test.provider, test.result)
    /\ UNCHANGED <<store, cache, disk, flushFailures, backend, guard, last, ret, tasks>>

NextTest ==
    \/ TestStart
    \/ TestValidate
    \/ TestFinish

SpecTest == Init /\ [][NextTest]_vars

\* ---------------------------------------------- commands and the guard
\* A command of commands.rs on the async runtime, step by step: a store
\* operation takes the Mutex of SettingsStorage.store inside get_settings and
\* inside save_settings and drops it when each returns; the command then
\* matches on the result, emits, and awaits a notification.
\* test_provider_connection emits, awaits the validator's sleep, emits and
\* awaits a notification. The assignments of a body touch the command's own
\* copy only and are one step here.

\* How many of the commands below are invoked.
NumFacadeCommands == 4

FacadeCommand(k) ==
    CASE k = 1 -> [op |-> "update_settings", provider |-> "", arg |-> 1]
      [] k = 2 -> [op |-> "set_api_key", provider |-> "openai", arg |-> 2]
      [] k = 3 -> [op |-> "get_settings", provider |-> "", arg |-> 0]
      [] k = 4 -> [op |-> "test_provider_connection", provider |-> "openai",
                   arg |-> 1]
      [] OTHER -> [op |-> "test_provider_connection", provider |-> "ollama",
                   arg |-> 3]

\* The command of task `p`.
CommandOf(p) == FacadeCommand(tasks[p].cmd)

\* Where a command is suspended: in tokio::time::sleep of the validator, and
\* in `send_*_notification(..).await`.
Suspended == {"sleeping", "notifying"}

\* Where a command is inside get_settings or save_settings.
Locked == {"get_settings", "save_settings"}

\* A guard that outlives the function that took it.
drop_guard_leaked(holder) == holder

\* `store_lock` goes out of scope when get_settings or save_settings returns.
drop_guard(holder) == {}

\* The frontend invokes a command.
FacadeInvoke(p) ==
    \E k \in 1..NumFacadeCommands :
        /\ tasks[p].pc = "idle"
        /\ tasks' = [tasks EXCEPT ![p] = [@ EXCEPT !.pc = "invoked", !.cmd = k]]
        /\ UNCHANGED <<store, cache, disk, flushFailures, backend, guard, last, ret,
                       emitted, test>>

\* `let store_lock = self.store.lock().unwrap();` of get_settings, which the
\* command calls first, and of save_settings, which it calls after its body.
Lock(p) ==
    /\ CommandOf(p).op # "test_provider_connection"
    /\ tasks[p].pc \in {"invoked", "body"}
    /\ guard = {}
    /\ guard' = {p}
    /\ tasks' = [tasks EXCEPT ![p] =
          [@ EXCEPT !.pc = IF tasks[p].pc = "invoked"
                           THEN "get_settings" ELSE "save_settings"]]
    /\ UNCHANGED <<store, cache, disk, flushFailures, backend, last, ret, emitted, test>>

\* The body of the command between get_settings and save_settings.
facade_body(c, settings, order) ==
    CASE c.op = "update_settings" -> update_loop(settings, Patch(c.arg), order)
      [] c.op = "set_api_key" ->
           set_api_key_body(settings, c.provider, ApiKeyArg(c.arg))
      [] OTHER -> settings

\* The rest of get_settings under the guard, and its return; the command
\* get_settings returns what it read, the others go on with their body.
GetSettingsLocked(p) ==
    LET got == get_settings
        c == CommandOf(p)
    IN
        /\ tasks[p].pc = "get_settings"
        /\ p \in guard
        /\ guard' = drop_guard(guard)
        /\ \E order \in IF got.ok /\ c.op = "update_settings"
                        THEN Orders(DOMAIN Patch(c.arg)) ELSE {<<>>} :
              tasks' = [tasks EXCEPT ![p] =
                  IF ~got.ok \/ c.op = "get_settings"
                  THEN [@ EXCEPT !.pc = "returned", !.res = got]
                  ELSE [@ EXCEPT !.pc = "body",
                                 !.settings = facade_body(c, got.v, order)]]
        /\ UNCHANGED <<store, cache, disk, flushFailures, backend, last, ret, emitted, test>>

\* The rest of save_settings under the guard, and its return.
SaveSettingsLocked(p) ==
    \E flushOk \in BOOLEAN :
        /\ tasks[p].pc = "save_settings"
        /\ p \in guard
        /\ FlushMay(flushOk)
        /\ store = "Some"
        /\ cache' = {ToValue(tasks[p].settings)}
        /\ disk' = IF flushOk THEN cache' ELSE disk
        /\ flushFailures' = IF flushOk THEN flushFailures ELSE flushFailures + 1
        /\ guard' = drop_guard(guard)
        /\ tasks' = [tasks EXCEPT ![p] =
              [@ EXCEPT !.pc = "returned",
                        !.res = IF flushOk THEN Ok(tasks[p].settings) ELSE Err(ERR_SAVE)]]
        /\ UNCHANGED <<store, backend, last, ret, emitted, test>>

\* Whether the arm the command's match takes awaits a notification.
AwaitsNotification(c, result) ==
    CASE c.op = "get_settings" -> FALSE
      [] c.op = "update_settings" -> ~result.ok
      [] OTHER -> TRUE

\* `match &result { .. }` of a store command: the Ok arm emits
\* "settings-updated"; get_settings has no match and returns.
MatchResult(p) ==
    /\ tasks[p].pc = "returned"
    /\ emitted' = emitted \o (IF CommandOf(p).op = "get_settings" THEN <<>>
                              ELSE emit_settings_updated(tasks[p].res))
    /\ tasks' = [tasks EXCEPT ![p] =
          [@ EXCEPT !.pc = IF AwaitsNotification(CommandOf(p), tasks[p].res)
                           THEN "notifying" ELSE "done"]]
    /\ UNCHANGED <<store, cache, disk, flushFailures, backend, guard, last, ret, test>>

\* `send_success_notification(..).await` or `send_error_notification(..).await`
\* completes and the command returns its result.
SendNotification(p) ==
    /\ tasks[p].pc = "notifying"
    /\ tasks' = [tasks EXCEPT ![p] = [@ EXCEPT !.pc = "done"]]
    /\ UNCHANGED <<store, cache, disk, flushFailures, backend, guard, last, ret,
                   emitted, test>>

\* test_provider_connection emits "provider-test-started" and awaits the sleep
\* of test_provider_internal.
TestSleep(p) ==
    /\ CommandOf(p).op = "test_provider_connection"
    /\ tasks[p].pc = "invoked"
    /\ emitted' = emitted \o <<Event("provider-test-started", CommandOf(p).provider)>>
    /\ tasks' = [tasks EXCEPT ![p] = [@ EXCEPT !.pc = "sleeping"]]
    /\ UNCHANGED <<store, cache, disk, flushFailures, backend, guard, last, ret, test>>

\* The sleep is over: test_provider_internal returns, the match on its result
\* emits the terminal event and awaits the notification.
TestWake(p) ==
    LET c == CommandOf(p)
        result == test_provider_internal(c.provider, TestConfig(c.arg))
    IN
        /\ tasks[p].pc = "sleeping"
        /\ emitted' = emitted \o emit_test_result(c.provider, result)
        /\ tasks' = [tasks EXCEPT ![p] = [@ EXCEPT !.pc = "notifying", !.res = result]]
        /\ UNCHANGED <<store, cache, disk, flushFailures, backend, guard, last, ret, test>>

\* The steps of the command of task `p`.
FacadeStep(p) ==
    \/ FacadeInvoke(p)
    \/ Lock(p)
    \/ GetSettingsLocked(p)
    \/ SaveSettingsLocked(p)
    \/ MatchResult(p)
    \/ SendNotification(p)
    \/ TestSleep(p)
    \/ TestWake(p)

NextFacade == \E p \in Tasks : FacadeStep(p)

SpecFacade == InitConcurrent /\ [][NextFacade]_vars

\* =============================================================== claims

\* The provider map of the stored value `c`, as JSON; of the default record
\* when nothing is stored.
StoredProviders(c) ==
    IF c = {} THEN ToValue(AppSettingsDefault).providers
    ELSE (CHOOSE v \in c : TRUE).providers

StoredApiKeys(c) ==
    [id \in DOMAIN StoredProviders(c) |-> StoredProviders(c)[id].api_key]

\* An export whose provider entries have no api_key field.
NoApiKeyField(export) ==
    \A id \in DOMAIN export.settings.providers :
        "api_key" \notin DOMAIN export.settings.providers[id]

\* C1: in every reachable state, the payload export() returns has no api_key
\* field in any provider entry, whatever keys the record holds: both the
\* payload an export taken now would return and the one the last export did.
C1_ExportHasNoApiKey ==
    /\ get_settings.ok =>
         \A now \in Timestamps : NoApiKeyField(SettingsExport(get_settings.v, now))
    /\ (last.op = "export_settings" /\ ret.ok) => NoApiKeyField(ret.v)

\* An export was returned from a record holding two credentials.
C1_Witness ==
    /\ last.op = "export_settings"
    /\ ret.ok
    /\ get_settings.v.providers["openai"].api_key = {"sk-abc"}
    /\ get_settings.v.providers["ollama"].api_key = {"sk-abc"}

\* C2: an import step leaves every provider's api_key in the stored record
\* as it was, whether the payload is accepted or not and whatever it carries.
C2_ImportKeepsApiKeys ==
    [][last'.op = "import_settings" => StoredApiKeys(cache') = StoredApiKeys(cache)]_vars

\* The payload whose entries carry an api_key was imported over a record
\* holding a credential, and the payload without provider entries was too.
C2_Witness ==
    /\ last.op = "import_settings"
    /\ last.arg \in {2, 4}
    /\ ret.ok
    /\ ret.v.providers["openai"].api_key = {"sk-abc"}
    /\ ret.v.providers["ollama"].api_key = {""}

\* What the whole command `c` makes of the stored value `value` when nothing
\* runs between its get_settings and its save_settings.
RunCommand(c, value) ==
    LET got == get_settings_of("Some", value) IN
    CASE c.op = "reset_settings" -> {ToValue(reset_body)}
      [] c.op = "get_settings" -> value
      [] c.op = "import_settings" /\ ~ParseOk(CommandText(c)) -> value
      [] OTHER ->
           IF ~got.ok THEN value
           ELSE {ToValue(
               CASE c.op = "update_settings" ->
                      update_loop(got.v, Patch(c.arg),
                                  CHOOSE o \in Orders(DOMAIN Patch(c.arg)) : TRUE)
                 [] c.op = "update_provider_settings" ->
                      update_provider_body(got.v, c.provider, ProviderPatch(c.arg),
                          CHOOSE o \in Orders(DOMAIN ProviderPatch(c.arg)) : TRUE)
                 [] c.op = "set_api_key" ->
                      set_api_key_body(got.v, c.provider, ApiKeyArg(c.arg))
                 [] OTHER ->
                      import_body(got.v, ParseExport(CommandText(c))))}

\* The stored value after the commands of the tasks in `order` ran one after
\* the other, each as a whole, from the stored value `value`.
RECURSIVE Serial(_, _)
Serial(order, value) ==
    IF order = <<>> THEN value
    ELSE Serial(Tail(order), RunCommand(Command(tasks[Head(order)].cmd), value))

\* C3: when the concurrently invoked commands have all returned, the stored
\* record is the one some order of running them one after the other, each as
\* an atomic read-modify-write, leaves: no command's update is lost.
C3_NoLostUpdate ==
    (\A p \in Tasks : tasks[p].pc = "done")
        => cache \in {Serial(order, {}) : order \in Orders(Tasks)}

\* The records left by running, one after the other and each as a whole, any
\* of the commands the tasks in `S` were invoked with.
WholeRecords(S) ==
    {get_settings_of("Some", Serial(order, {})).v :
        order \in UNION {Orders(T) : T \in SUBSET {q \in S : tasks[q].pc # "idle"}}}

\* C4: a get() that ran concurrently with other commands returned a record
\* in which each of them is applied entirely or not at all: never one that
\* has some of the fields a patch or an import assigns and not the others.
C4_GetSeesAllOrNothing ==
    \A p \in Tasks :
        (tasks[p].pc = "done" /\ Command(tasks[p].cmd).op = "get_settings"
            /\ tasks[p].res.ok)
        => tasks[p].res.v \in WholeRecords(Tasks \ {p})

\* A get() returned a record it read while a patch of two fields had assigned
\* one of them, and the patch's copy differed from the record read.
C4_Witness ==
    \E p, q \in Tasks :
        /\ tasks[p].pc = "done" /\ Command(tasks[p].cmd).op = "get_settings"
        /\ tasks[p].res.ok /\ tasks[p].mid
        /\ tasks[q].pc = "body" /\ Command(tasks[q].cmd).op = "update_settings"
        /\ Cardinality(tasks[q].todo) = 1
        /\ Cardinality(Entries(Command(tasks[q].cmd))) = 2
        /\ tasks[q].settings # tasks[p].res.v

\* C5: once a value is stored, its provider keys are exactly openai,
\* anthropic, google and ollama, and so are those of the record get() returns.
C5_ProviderKeysFixed ==
    /\ DOMAIN StoredProviders(cache) = ProviderIds
    /\ get_settings.ok => DOMAIN get_settings.v.providers = ProviderIds
    /\ (ret.ok /\ last.op \in {"update_settings", "update_provider_settings",
                               "set_api_key", "reset_settings", "import_settings"})
         => DOMAIN ret.v.providers = ProviderIds

\* A payload with an entry for an unknown provider was imported, or a patch
\* or a key was given for an unknown provider.
C5_Witness ==
    /\ ret.ok
    /\ \/ last.op = "import_settings" /\ last.arg = 2
       \/ last.op \in {"update_provider_settings", "set_api_key"}
            /\ last.provider = "mistral"

\* C6: after a reset that succeeded, get() returns the default record: every
\* api_key absent, openai enabled and anthropic, google, ollama not.
C6_ResetThenGet ==
    (last.op = "reset_settings" /\ ret.ok) =>
        /\ get_settings = Ok(AppSettingsDefault)
        /\ ret.v = AppSettingsDefault
        /\ \A id \in ProviderIds :
              /\ get_settings.v.providers[id].api_key = {}
              /\ get_settings.v.providers[id].enabled = (id = "openai")

C6_Witness == last.op = "reset_settings" /\ ret.ok /\ cache # {}

\* The fields a patch may name, with their types (types.rs): the top-level
\* fields of the record and the fields of a provider entry.
TopFields ==
    {"theme", "sidebar_width", "auto_save_interval", "default_temperature",
     "default_max_tokens", "enable_analytics", "debug_mode", "compact_mode"}

ProviderFields ==
    {"api_key", "custom_endpoint", "default_model", "rate_limit_rpm", "enabled"}

FieldType(key) ==
    CASE key = "theme" -> "ThemeMode"
      [] key \in {"sidebar_width", "auto_save_interval", "default_max_tokens"} -> "u32"
      [] key = "default_temperature" -> "f32"
      [] key \in {"enable_analytics", "debug_mode", "compact_mode"} -> "bool"
      [] OTHER -> "unrecognized"

ProviderFieldType(key) ==
    CASE key \in {"api_key", "custom_endpoint", "default_model"} -> "String"
      [] key = "rate_limit_rpm" -> "u32"
      [] key = "enabled" -> "bool"
      [] OTHER -> "unrecognized"

\* A JSON value of the type: a theme name, an unsigned integer of 32 bits,
\* a number, a boolean, a string.
WellTyped(type, j) ==
    CASE type = "ThemeMode" -> j.t = "str" /\ j.s \in {"light", "dark", "system"}
      [] type = "u32" -> j.t = "posint" /\ j.hi = 0
      [] type = "f32" -> j.t \in {"posint", "negint", "float"}
      [] type = "bool" -> j.t = "bool"
      [] type = "String" -> j.t = "str"
      [] OTHER -> FALSE

\* The entries of a patch that are recognized and well-typed.
GoodKeys(F) == {key \in DOMAIN F : WellTyped(FieldType(key), F[key])}

GoodProviderKeys(F) == {key \in DOMAIN F : WellTyped(ProviderFieldType(key), F[key])}

\* The same JSON value; an integer and the float of the same value are the
\* same number.
JsonEq(a, b) ==
    \/ a = b
    \/ /\ {a.t, b.t} = {"posint", "float"}
       /\ a.n = b.n /\ a.hi = 0 /\ b.hi = 0 /\ a.e = 0 /\ b.e = 0

\* C7: after a patch F of recognized, well-typed fields applied to a
\* readable record R, get() succeeds and returns a record in which every
\* field of F has the value given and every other field, the providers
\* included, is as in R.
C7_PatchThenGet ==
    [][(/\ last'.op = "update_settings"
        /\ GoodKeys(Patch(last'.arg)) = DOMAIN Patch(last'.arg)
        /\ get_settings.ok)
       => /\ get_settings_of(store', cache').ok
          /\ \A key \in TopFields :
                IF key \in DOMAIN Patch(last'.arg)
                THEN JsonEq(ToValue(get_settings_of(store', cache').v)[key],
                            Patch(last'.arg)[key])
                ELSE ToValue(get_settings_of(store', cache').v)[key]
                        = ToValue(get_settings.v)[key]
          /\ get_settings_of(store', cache').v.providers
                = get_settings.v.providers]_vars

\* What C8 says of a call that patched record `r` with `F` and returned
\* `res`: success; the record is `r` with the well-typed recognized entries
\* of `F` applied, in any order; every other field is as in `r`.
TopPatchApplied(r, F, res) ==
    /\ res.ok
    /\ \A order \in Orders(GoodKeys(F)) : res.v = update_loop(r, F, order)
    /\ \A key \in TopFields \ GoodKeys(F) : res.v[key] = r[key]
    /\ res.v.providers = r.providers

ProviderPatchApplied(r, provider, F, res) ==
    /\ res.ok
    /\ \A order \in Orders(GoodProviderKeys(F)) :
          res.v.providers[provider]
             = update_provider_loop(r.providers[provider], F, order)
    /\ \A key \in ProviderFields \ GoodProviderKeys(F) :
          res.v.providers[provider][key] = r.providers[provider][key]
    /\ \A id \in ProviderIds \ {provider} : res.v.providers[id] = r.providers[id]
    /\ \A key \in TopFields : res.v[key] = r[key]

\* C8: a patch, or a provider patch for a known provider, of a readable
\* record returns success whatever it mixes; the record it returns and
\* stores is the previous one with exactly the well-typed recognized entries
\* applied, in whatever order the entries were processed.
C8_MixedPatchApplied ==
    [][/\ (last'.op = "update_settings" /\ get_settings.ok)
          => /\ TopPatchApplied(get_settings.v, Patch(last'.arg), ret')
             /\ cache' = {ToValue(ret'.v)}
       /\ (/\ last'.op = "update_provider_settings"
           /\ last'.provider \in ProviderIds
           /\ get_settings.ok)
          => /\ ProviderPatchApplied(get_settings.v, last'.provider,
                                     ProviderPatch(last'.arg), ret')
             /\ cache' = {ToValue(ret'.v)}]_vars

\* The patch mixing a well-typed width, an ill-typed theme and an unknown
\* name was applied to a record whose theme was dark: the width changed and
\* the theme did not.
C8_Witness ==
    /\ last.op = "update_settings"
    /\ last.arg = 3
    /\ GoodKeys(Patch(3)) = {"sidebar_width"}
    /\ ret.ok
    /\ ret.v.sidebar_width = 480
    /\ ret.v.theme = "Dark"

\* C9: importing the serialised export of the current record leaves every
\* field of the stored record as it was, each provider's api_key included.
C9_ImportOfExportIsIdentity ==
    [][(last'.op = "import_settings" /\ last'.arg = 1)
       => /\ ret'.ok
          /\ ret'.v = get_settings.v
          /\ get_settings_of(store', cache') = get_settings]_vars

\* The export of a record that differs from the default in top-level
\* fields, in provider fields and in credentials was imported.
C9_Witness ==
    /\ last.op = "import_settings"
    /\ last.arg = 1
    /\ ret.ok
    /\ ret.v.providers["openai"].api_key = {"sk-abc"}
    /\ ret.v.providers["ollama"].custom_endpoint = {}
    /\ ret.v.providers["ollama"].rate_limit_rpm = {}
    /\ ret.v.theme = "Dark"

\* C10: a patch, or a provider patch, applied right after the same patch
\* (for the same provider) leaves the stored value as it is.
C10_PatchIdempotent ==
    [][(/\ last'.op \in {"update_settings", "update_provider_settings"}
        /\ last'.again)
       => cache' = cache]_vars

\* A patch was applied twice in a row and succeeded the second time.
C10_Witness ==
    /\ last.again
    /\ ret.ok
    /\ \/ last.op = "update_settings" /\ last.arg = 2
       \/ /\ last.op = "update_provider_settings"
          /\ last.arg = 1
          /\ last.provider = "openai"

\* C11: a provider patch or a set_api_key for an identifier that is no key of
\* the current record returns that record, leaves every field as it was and
\* still writes the record to the backend and its file; when nothing was
\* stored before, the default record is stored after it.
C11_UnknownProviderIsNoOp ==
    [][(/\ last'.op \in {"update_provider_settings", "set_api_key"}
        /\ get_settings.ok
        /\ last'.provider \notin DOMAIN get_settings.v.providers)
       => /\ ret' = Ok(get_settings.v)
          /\ get_settings' = get_settings
          /\ cache' = {ToValue(get_settings.v)}
          /\ disk' = cache'
          /\ cache = {} => disk' = {ToValue(AppSettingsDefault)}]_vars

\* Both operations were called for "mistral"; the last one returned, and the
\* default record is what the backend and its file hold.
C11_Witness ==
    /\ last.op \in {"update_provider_settings", "set_api_key"}
    /\ last.provider = "mistral"
    /\ ret.ok /\ ret.v = AppSettingsDefault
    /\ cache = {ToValue(AppSettingsDefault)}
    /\ disk = cache

\* The name the validator's messages give the provider.
ProviderName(provider) ==
    CASE provider = "openai" -> "OpenAI"
      [] provider = "anthropic" -> "Anthropic"
      [] provider = "google" -> "Google"
      [] provider = "ollama" -> "Ollama"
      [] OTHER -> provider

\* The error for a required field that is missing, naming the provider.
MissingCredentialError(provider, result) ==
    /\ ~result.ok
    /\ result.err \in {"API key is required for " \o ProviderName(provider),
                       "Custom endpoint is required for " \o ProviderName(provider)}

UnknownProviderError(provider, result) ==
    ~result.ok /\ result.err = "Unknown provider: " \o provider

\* The optional string is absent or the empty string.
AbsentOrEmpty(opt) == opt = {} \/ opt = {<<>>}

\* The validator has returned in this state.
Validated == test.pc \in {"validated", "done"}

\* What the validator returned has the form the table gives for the three
\* cloud providers and for identifiers outside the four, where a Google key
\* passes when `googleOk`.
CloudResultOk(provider, config, result, googleOk) ==
    /\ provider \in {"openai", "anthropic", "google"} =>
         IF AbsentOrEmpty(config.api_key)
         THEN MissingCredentialError(provider, result)
         ELSE result =
                Ok(CASE provider = "openai" ->
                          starts_with(CHOOSE k \in config.api_key : TRUE, STR_SK)
                     [] provider = "anthropic" ->
                          starts_with(CHOOSE k \in config.api_key : TRUE, STR_SK_ANT)
                     [] OTHER -> googleOk)
    /\ provider \notin {"openai", "anthropic", "google", "ollama"} =>
         UnknownProviderError(provider, result)

\* C12 as stated: a Google key passes exactly when it is longer than 10
\* characters.
C12_KeyLengthInCharacters ==
    Validated =>
        CloudResultOk(test.provider, TestConfig(test.config), test.result,
            TestConfig(test.config).api_key # {}
            /\ Len(CHOOSE k \in TestConfig(test.config).api_key : TRUE) > 10)

\* C12: for openai, anthropic and google the validator fails with the missing
\* credential error naming the provider when api_key is absent or empty, and
\* otherwise returns whether the key starts with "sk-" (openai), starts with
\* "sk-ant-" (anthropic), or is longer than 10 bytes in UTF-8 (google); for
\* an identifier outside the four it fails with the unknown provider error
\* whatever the config holds.
C12_CloudValidator ==
    Validated =>
        CloudResultOk(test.provider, TestConfig(test.config), test.result,
            TestConfig(test.config).api_key # {}
            /\ len(CHOOSE k \in TestConfig(test.config).api_key : TRUE) > 10)

\* The test of a Google key of six letters and twelve bytes has returned
\* true.
C12_Witness ==
    /\ test.pc = "done"
    /\ test.provider = "google"
    /\ TestConfig(test.config).api_key = {KEY_CYRILLIC}
    /\ test.result = Ok(TRUE)

\* C13: for ollama the validator fails with the missing credential error
\* when custom_endpoint is absent or the empty string, and otherwise returns
\* whether the endpoint contains "localhost" or "127.0.0.1".
C13_OllamaRequiresEndpoint ==
    (Validated /\ test.provider = "ollama") =>
        IF AbsentOrEmpty(TestConfig(test.config).custom_endpoint)
        THEN MissingCredentialError("ollama", test.result)
        ELSE test.result =
               Ok(contains(CHOOSE u \in TestConfig(test.config).custom_endpoint : TRUE,
                           STR_LOCALHOST)
                  \/ contains(CHOOSE u \in TestConfig(test.config).custom_endpoint : TRUE,
                              STR_LOOPBACK))

\* The operations of the store other than init.
StoreOps ==
    {"get_settings", "update_settings", "update_provider_settings", "reset_settings",
     "export_settings", "import_settings", "get_api_key", "set_api_key"}

\* The store was unbound and is unbound, and the backend holds what it held.
StaysUnbound ==
    /\ store' = "None"
    /\ cache' = cache
    /\ disk' = disk

\* C14 as stated: every operation on an unbound store fails with the
\* not-initialized error, whatever its arguments.
C14_AlwaysNotInitialized ==
    [][(store = "None" /\ last'.op \in StoreOps)
       => (ret' = Err(ERR_NOT_INITIALIZED) /\ StaysUnbound)]_vars

\* C14: an operation on an unbound store fails and leaves the store unbound
\* and the backend unchanged; the error is the not-initialized one, except
\* that import given a text that does not parse fails with the parse error,
\* which it finds before it looks at the store.
C14_FailsUnbound ==
    [][(store = "None" /\ last'.op \in StoreOps)
       => /\ StaysUnbound
          /\ ret' = IF last'.op = "import_settings"
                       /\ ~ParseOk(ImportText(last'.arg, AppSettingsDefault, ""))
                    THEN Err(ERR_PARSE_EXPORT)
                    ELSE Err(ERR_NOT_INITIALIZED)]_vars

\* An import of a well-formed export failed on the unbound store.
C14_Witness ==
    /\ store = "None"
    /\ last.op = "import_settings" /\ last.arg = 2
    /\ ret = Err(ERR_NOT_INITIALIZED)
    /\ cache = {} /\ disk = {}

\* C15: on a bound store that holds no value get() returns the default
\* record, and in every state the store's operations reach from there get()
\* succeeds: once the store is bound a record is always available.
C15_RecordAlwaysAvailable ==
    store = "Some" =>
        /\ get_settings.ok
        /\ cache = {} => get_settings = Ok(AppSettingsDefault)

\* The commands that change the record.
MutatingOps ==
    {"update_settings", "update_provider_settings", "reset_settings",
     "import_settings", "set_api_key"}

\* The texts of the model, other than the export of the current record,
\* that do not parse as an export.
Malformed(i) == i # 1 /\ ~ParseOk(ImportText(i, AppSettingsDefault, ""))

\* C16: an import of a text that does not parse as an export fails with the
\* parse error, leaves the stored value and the backend's file as they were,
\* and emits no "settings-updated" event.
C16_MalformedImportChangesNothing ==
    [][(last'.op = "import_settings" /\ Malformed(last'.arg))
       => /\ ret' = Err(ERR_PARSE_EXPORT)
          /\ cache' = cache
          /\ disk' = disk
          /\ store' = store
          /\ \A i \in DOMAIN emitted' : emitted'[i].name # "settings-updated"]_vars

\* The import of a JSON document that lacks the provider map failed on a
\* bound store that holds a record with a credential.
C16_Witness ==
    /\ last.op = "import_settings" /\ last.arg = 5
    /\ ret = Err(ERR_PARSE_EXPORT)
    /\ store = "Some"
    /\ cache # {} /\ StoredApiKeys(cache)["openai"] = JStr("sk-abc")
    /\ emitted = <<>>

\* An event of test_provider_connection that ends the test.
Terminal(event) == event.name \in {"provider-test-completed", "provider-test-failed"}

\* C17: a test_provider_connection emits "provider-test-started" first and
\* then one terminal event when the validator has returned: "completed" with
\* the boolean it returned, or "failed" with its error; never both, and never
\* a terminal event before the started one.
C17_TestEvents ==
    test.pc # "idle" =>
        /\ Len(emitted) >= 1
        /\ emitted[1] = Event("provider-test-started", test.provider)
        /\ \A i \in DOMAIN emitted : Terminal(emitted[i]) => i = 2
        /\ test.pc \in {"started", "validated"} => Len(emitted) = 1
        /\ test.pc = "done" =>
             /\ Len(emitted) = 2
             /\ emitted[2] =
                  IF test.result.ok
                  THEN Event("provider-test-completed", <<test.provider, test.result.v>>)
                  ELSE Event("provider-test-failed", <<test.provider, test.result.err>>)

\* A test whose validator returned false has emitted the started event and
\* the completed event.
C17_Witness ==
    /\ test.pc = "done"
    /\ test.result.ok /\ ~test.result.v
    /\ emitted = <<Event("provider-test-started", test.provider),
                   Event("provider-test-completed", <<test.provider, FALSE>>)>>

\* C18: a command that changes the record emits one "settings-updated" event
\* carrying the record it returns when the store operation succeeds, and no
\* event when the store operation fails; what the store operation returned,
\* error included, is what the command returns.
C18_UpdatedEvent ==
    [][last'.op \in MutatingOps
       => emitted' = IF ret'.ok THEN <<Event("settings-updated", ret'.v)>> ELSE <<>>]_vars

\* A provider patch succeeded and its event carries the record it returned,
\* which is not the default record.
C18_Witness ==
    /\ last.op = "update_provider_settings"
    /\ ret.ok /\ ret.v # AppSettingsDefault
    /\ emitted = <<Event("settings-updated", ret.v)>>

\* C19: when a command that changes the record has returned a record, the
\* backend and its file hold that record, and a get() that runs next returns
\* it.
C19_ReturnedIsPersisted ==
    (last.op \in MutatingOps /\ ret.ok)
        => /\ disk = cache
           /\ get_settings_of("Some", disk).ok
           /\ get_settings_of("Some", disk).v = ret.v
           /\ get_settings.ok
           /\ get_settings.v = ret.v

\* The record with the API key of provider `p` replaced by `v`.
WithApiKey(settings, p, v) ==
    [theme |-> settings.theme,
     sidebar_width |-> settings.sidebar_width,
     auto_save_interval |-> settings.auto_save_interval,
     default_temperature |-> settings.default_temperature,
     default_max_tokens |-> settings.default_max_tokens,
     enable_analytics |-> settings.enable_analytics,
     debug_mode |-> settings.debug_mode,
     compact_mode |-> settings.compact_mode,
     providers |->
        [id \in DOMAIN settings.providers |->
            IF id # p THEN settings.providers[id]
            ELSE [api_key |-> v,
                  custom_endpoint |-> settings.providers[id].custom_endpoint,
                  default_model |-> settings.providers[id].default_model,
                  rate_limit_rpm |-> settings.providers[id].rate_limit_rpm,
                  enabled |-> settings.providers[id].enabled]]]

\* C20: a set_api_key(p, v) that succeeds for a key p of the record stores
\* the record with p's api_key replaced by v and nothing else changed; the
\* get_api_key(p) that runs next returns v, absent when v is absent; and
\* get_api_key for an identifier that is no key returns absent, not an error.
C20_ApiKeyAccessors ==
    [][/\ (last'.op = "set_api_key" /\ ret'.ok
             /\ last'.provider \in DOMAIN get_settings.v.providers)
          => /\ get_settings' =
                  Ok(WithApiKey(get_settings.v, last'.provider, ApiKeyArg(last'.arg)))
             /\ get_api_key_body(get_settings'.v, last'.provider) = ApiKeyArg(last'.arg)
       /\ (last.op = "set_api_key" /\ ret.ok
             /\ last.provider \in DOMAIN get_settings.v.providers
             /\ last'.op = "get_api_key" /\ last'.provider = last.provider)
          => ret' = Ok(ApiKeyArg(last.arg))
       /\ (last'.op = "get_api_key" /\ get_settings.ok
             /\ last'.provider \notin DOMAIN get_settings.v.providers)
          => ret' = Ok({})]_vars

\* get_api_key returned the empty string set_api_key had stored for openai.
C20_Witness ==
    /\ last.op = "get_api_key" /\ last.provider = "openai"
    /\ ret.ok /\ ret.v = {""}

\* ------------------------------------------- provider patches by field
\* update_provider_settings given one recognised field at a time: each of the
\* three optional strings as the empty string and as a non-empty one,
\* rate_limit_rpm as 0, as another u32 and as a negative integer, and two
\* fields at once.

\* How many of the patches below are drawn.
NumFieldPatches == 10

FieldPatch(i) ==
    CASE i = 1 -> [api_key |-> JStr("")]
      [] i = 2 -> [api_key |-> JStr("sk-abc")]
      [] i = 3 -> [custom_endpoint |-> JStr("")]
      [] i = 4 -> [custom_endpoint |-> JStr("https://llm.example/v1")]
      [] i = 5 -> [default_model |-> JStr("")]
      [] i = 6 -> [default_model |-> JStr("gpt-4o-mini")]
      [] i = 7 -> [rate_limit_rpm |-> JPosInt(0, 0)]
      [] i = 8 -> [rate_limit_rpm |-> JPosInt(0, 120)]
      [] i = 9 -> [rate_limit_rpm |-> JNegInt(1)]
      [] i = 10 -> [api_key |-> JStr(""), rate_limit_rpm |-> JPosInt(0, 0)]
      [] OTHER -> [custom_endpoint |-> JStr(""), default_model |-> JStr("o3")]

\* update_provider_settings(provider, updates) with one of these patches.
UpdateProviderField ==
    \E provider \in PatchedProviders, i \in 1..NumFieldPatches, flushOk \in BOOLEAN :
      LET got == get_settings IN
        /\ FlushMay(flushOk)
        /\ last' = Call("update_provider_settings", provider, i)
        /\ UNCHANGED <<store, backend, guard, tasks, test>>
        /\ \E order \in IF got.ok THEN Orders(DOMAIN FieldPatch(i)) ELSE {<<>>} :
              Mutate(got, update_provider_body(got.v, provider, FieldPatch(i), order),
                     flushOk)
        /\ emitted' = emit_settings_updated(ret')

NextProviderFields ==
    \/ InitStore
    \/ UpdateProviderField
    \/ GetApiKey

SpecProviderFields == Init /\ [][NextProviderFields]_vars

\* The optional strings a provider patch coerces.
OptionalStrings == {"api_key", "custom_endpoint", "default_model"}

\* What update_provider_settings(provider, F) has to leave stored in entry
\* `ps` of the provider.
PatchedFieldsStored(ps, F) ==
    /\ \A key \in OptionalStrings \cap DOMAIN F :
          IsString(F[key]) =>
              ps[key] = IF AsString(F[key]) = "" THEN {} ELSE {AsString(F[key])}
    /\ ("rate_limit_rpm" \in DOMAIN F /\ IsU32(F.rate_limit_rpm)) =>
          ps.rate_limit_rpm = {AsU32(F.rate_limit_rpm)}

\* C21: update_provider_settings on a provider of the record that succeeds
\* leaves, in the stored record, each of api_key, custom_endpoint and
\* default_model absent when it was given as the empty string and present
\* with the given text otherwise, and rate_limit_rpm present with the given
\* u32, 0 included; a get_api_key of that provider right after a patch with
\* the empty api_key returns absent.
C21_ProviderPatchCoercions ==
    [][/\ (/\ last'.op = "update_provider_settings"
           /\ last'.provider \in ProviderIds
           /\ ret'.ok)
          => /\ get_settings'.ok
             /\ PatchedFieldsStored(get_settings'.v.providers[last'.provider],
                                    FieldPatch(last'.arg))
       /\ (/\ last.op = "update_provider_settings"
           /\ ret.ok
           /\ "api_key" \in DOMAIN FieldPatch(last.arg)
           /\ FieldPatch(last.arg).api_key = JStr("")
           /\ last'.op = "get_api_key"
           /\ last'.provider = last.provider)
          => ret'.ok /\ ret'.v = {}]_vars

\* The patch with an empty api_key and rate_limit_rpm 0 has succeeded on a
\* provider whose entry holds a custom endpoint and another model.
C21_Witness ==
    /\ last.op = "update_provider_settings"
    /\ last.provider = "openai"
    /\ last.arg = NumFieldPatches
    /\ ret.ok
    /\ ret.v.providers["openai"].api_key = {}
    /\ ret.v.providers["openai"].rate_limit_rpm = {0}
    /\ ret.v.providers["openai"].custom_endpoint # {}
    /\ ret.v.providers["openai"].default_model = {"gpt-4o-mini"}

\* The operations that only read.
ReadOps == {"get_settings", "export_settings", "get_api_key"}

\* C23: get_settings, export_settings and get_api_key leave the value of the
\* key "settings" as it was, in the backend's memory and in its file; on a
\* bound store whose key holds nothing get_settings returns the default
\* record and the key still holds nothing afterwards.
C23_ReadsLeaveStore ==
    [][last'.op \in ReadOps =>
          /\ cache' = cache
          /\ disk' = disk
          /\ store' = store
          /\ (last'.op = "get_settings" /\ store = "Some" /\ cache = {}) =>
                /\ ret'.ok
                /\ ret'.v = AppSettingsDefault
                /\ cache' = {}
                /\ disk' = {}]_vars

\* get_settings has returned the default record from a key that holds nothing.
C23_Witness ==
    /\ last.op = "get_settings"
    /\ store = "Some"
    /\ cache = {}
    /\ disk = {}
    /\ ret.ok
    /\ ret.v = AppSettingsDefault

\* C25: a mutating operation whose store.save() fails returns the error, and
\* get_settings returns after it what it returned before it.
C25_FailedFlushKeepsRecord ==
    [][(last'.op \in MutatingOps /\ ~ret'.ok /\ ret'.err = ERR_SAVE) =>
          get_settings' = get_settings]_vars

IsSettingsUpdated(event) == event.name = "settings-updated"

\* C24: once every invoked command has returned, the payload of the last
\* "settings-updated" event emitted is the record get_settings returns.
C24_LastEventIsStored ==
    LET updates == SelectSeq(emitted, IsSettingsUpdated) IN
        (/\ \A p \in Tasks : tasks[p].pc \in {"idle", "done"}
         /\ updates # <<>>)
        => /\ get_settings.ok
           /\ get_settings.v = updates[Len(updates)].payload

====
